---- MODULE Spec2Model ----
(***************************************************************************)
(* The /search request handler of app.py and the extraction pipeline it    *)
(* drives: search() -> google_search() -> for each candidate               *)
(* extract_text() (newspaper3k -> trafilatura -> readability -> bs4) ->    *)
(* summarize_with_gemini() -> summaries.                                   *)
(*                                                                         *)
(* Python str values are sequences of one-character strings, None is the   *)
(* one-element sequence <<"None">> (no str has a four-character element).  *)
(* An article body is kept as [src, len]: which extractor produced it and  *)
(* how many characters it has; the code only ever tests a body's           *)
(* truthiness and its length.                                              *)
(***************************************************************************)
EXTENDS Integers, Sequences, FiniteSets, TLC

\* ------------------------------------------------------------ bounds
\* longest candidate list over the three core kinds of candidate
MaxCandidates == 7
\* longest candidate list over the wide set of candidate kinds
MaxWide == 2
\* longest query string of the request family
MaxQueryLen == 2

\* ------------------------------------------------- program constants
\* len(text) >= 300, the quality gate of every extractor
MinBodyLen == 300
\* len(summaries) >= 6
Quota == 6
\* google_search(..., num=10)
NumResults == 10
\* text[:8000]
PromptChars == 8000

\* ------------------------------------------------------ Python values
None == <<"None">>
EmptyStr == <<>>
Truthy(s) == s # None /\ s # EmptyStr
\* Python's `a or b` on str-or-None values
PyOr(a, b) == IF Truthy(a) THEN a ELSE b

NoText == [src |-> "None", len |-> 0]
Str(src, n) == [src |-> src, len |-> n]
TruthyText(t) == t # NoText /\ t.len > 0
PyLen(t) == t.len

NoDate == <<>>
\* link of a candidate without a URL (None or "")
NoUrl == 0

Whitespace == {" ", "\t"}

RECURSIVE lstrip(_)
lstrip(s) == IF s # <<>> /\ Head(s) \in Whitespace THEN lstrip(Tail(s)) ELSE s

RECURSIVE rstrip(_)
rstrip(s) ==
    IF s # <<>> /\ s[Len(s)] \in Whitespace
    THEN rstrip(SubSeq(s, 1, Len(s) - 1))
    ELSE s

\* variant: the query is used as sent, without .strip()
strip_missing(s) == s

\* str.strip()
strip(s) == lstrip(rstrip(s))

Min(a, b) == IF a <= b THEN a ELSE b

\* datetime.isoformat() of a publish date <<year, month, day>> at midnight
DigitChars == <<"0", "1", "2", "3", "4", "5", "6", "7", "8", "9">>
TwoDigits(n) == <<DigitChars[((n \div 10) % 10) + 1], DigitChars[(n % 10) + 1]>>
isoformat(d) ==
    TwoDigits(d[1] \div 100) \o TwoDigits(d[1] % 100) \o <<"-">> \o TwoDigits(d[2])
        \o <<"-">> \o TwoDigits(d[3]) \o <<"T", "0", "0", ":", "0", "0", ":", "0", "0">>

\* ------------------------------------------------------- fetch_html
\* resp: what requests.get does for the page, [raises, status_code, text]
fetch_html(resp) ==
    IF resp.raises THEN None
    ELSE IF resp.status_code = 200 /\ resp.text # EmptyStr THEN resp.text
    ELSE None

\* ------------------------------------------------------ extract_text
\* the locals title, text, publish_date of extract_text
NoneTriple == [title |-> None, text |-> NoText, publish_date |-> NoDate]

\* A strategy's step: the locals after it, whether it executed `return`, the
\* returned triple, and whether an exception left the try block uncaught.
Step(loc, returned, value) ==
    [loc |-> loc, returned |-> returned, value |-> value, escaped |-> FALSE]

\* variant: any non-empty text passes (`if text:`)
QualityGate_nonempty(t) == PyLen(t) > 0

\* the quality gate `len(text) >= 300`
QualityGate(t) == PyLen(t) >= MinBodyLen

\* art: what newspaper3k does for the page, [raises, title, text, publish_date]
Newspaper3k(art, loc) ==
    IF art.raises THEN Step(loc, FALSE, NoneTriple)
    ELSE LET l == [title |-> PyOr(art.title, loc.title),
                   text |-> IF TruthyText(art.text) THEN art.text ELSE loc.text,
                   publish_date |-> IF art.publish_date # NoDate
                                    THEN art.publish_date ELSE loc.publish_date]
         IN Step(l, TruthyText(l.text) /\ QualityGate(l.text), l)

\* variant: no try/except around trafilatura, its exception leaves extract_text
Trafilatura_uncaught(tra, loc) ==
    IF tra.raises
    THEN [loc |-> loc, returned |-> FALSE, value |-> NoneTriple, escaped |-> TRUE]
    ELSE IF ~tra.downloaded THEN Step(loc, FALSE, NoneTriple)
    ELSE Step(loc,
              TruthyText(tra.extracted) /\ QualityGate(tra.extracted),
              [title |-> loc.title, text |-> tra.extracted,
               publish_date |-> loc.publish_date])

\* tra: what trafilatura does for the page, [raises, downloaded, extracted]
Trafilatura(tra, loc) ==
    IF tra.raises THEN Step(loc, FALSE, NoneTriple)
    ELSE IF ~tra.downloaded THEN Step(loc, FALSE, NoneTriple)
    ELSE Step(loc,
              TruthyText(tra.extracted) /\ QualityGate(tra.extracted),
              [title |-> loc.title, text |-> tra.extracted,
               publish_date |-> loc.publish_date])

\* variant: `title = doc.short_title()`, readability's title always wins
Readability_overwrite(rd, loc) ==
    IF fetch_html(rd.resp) = None THEN Step(loc, FALSE, NoneTriple)
    ELSE IF rd.raises \in {"Document", "short_title"} THEN Step(loc, FALSE, NoneTriple)
    ELSE LET l1 == [loc EXCEPT !.title = rd.short_title]
             l2 == [l1 EXCEPT !.text = rd.text]
         IN IF rd.raises = "summary" THEN Step(l1, FALSE, NoneTriple)
            ELSE Step(l2, QualityGate(l2.text), l2)

\* rd: the page as readability sees it, [resp, raises, short_title, text] with
\* raises one of "no", "Document", "short_title", "summary"
Readability(rd, loc) ==
    IF fetch_html(rd.resp) = None THEN Step(loc, FALSE, NoneTriple)
    ELSE IF rd.raises = "Document" THEN Step(loc, FALSE, NoneTriple)
    ELSE IF rd.raises = "short_title" /\ ~Truthy(loc.title)
         THEN Step(loc, FALSE, NoneTriple)
    ELSE LET t == PyOr(loc.title, rd.short_title)
             l1 == [loc EXCEPT !.title = t]
             l2 == [l1 EXCEPT !.text = rd.text]
         IN IF rd.raises = "summary" THEN Step(l1, FALSE, NoneTriple)
            ELSE Step(l2, QualityGate(l2.text), l2)

\* bs: the page as BeautifulSoup sees it, [resp, raises, title_string, text]
Bs4Fallback(bs, loc) ==
    IF fetch_html(bs.resp) = None THEN Step(loc, FALSE, NoneTriple)
    ELSE IF bs.raises THEN Step(loc, FALSE, NoneTriple)
    ELSE LET l1 == [loc EXCEPT !.text = bs.text]
             l2 == IF ~Truthy(l1.title) /\ Truthy(bs.title_string)
                   THEN [l1 EXCEPT !.title = strip(bs.title_string)]
                   ELSE l1
         IN IF QualityGate(l1.text) THEN Step(l2, TRUE, l2)
            ELSE Step(l1, FALSE, NoneTriple)

\* variant: `return title, text, publish_date` after the last strategy
ExtractFail_partial(loc) == loc

\* `return None, None, None` after the last strategy
ExtractFail(loc) == NoneTriple

\* extract_text as a function of what the four libraries do for the page
extract_text(page) ==
    LET a == Newspaper3k(page.newspaper, NoneTriple) IN
    IF a.returned THEN a.value ELSE
    LET b == Trafilatura(page.trafilatura, a.loc) IN
    IF b.returned THEN b.value ELSE
    LET c == Readability(page.readability, b.loc) IN
    IF c.returned THEN c.value ELSE
    LET d == Bs4Fallback(page.bs4, c.loc) IN
    IF d.returned THEN d.value ELSE ExtractFail(d.loc)

\* --------------------------------------------- summarize_with_gemini
\* llm: what the model call does, [raises, has_text, text]; the result is
\* [raised, md]
Unknown == <<"U", "n", "k", "n", "o", "w", "n">>
NoPrompt == [title |-> None, url |-> NoUrl, date_iso |-> None, chars |-> 0]
summarize_with_gemini(gemini_key, llm, t, context) ==
    IF ~Truthy(gemini_key) THEN [raised |-> TRUE, md |-> None, prompt |-> NoPrompt]
    ELSE LET p == [title |-> PyOr(context.title, Unknown), url |-> context.url,
                   date_iso |-> context.date_iso,
                   chars |-> Min(PyLen(t), PromptChars)]
         IN IF llm.raises THEN [raised |-> TRUE, md |-> None, prompt |-> p]
            ELSE [raised |-> FALSE, prompt |-> p,
                  md |-> IF llm.has_text THEN llm.text ELSE None]

\* ----------------------------------------------------- google_search
\* c: what the Custom Search call does, [raises, has_items, items]; has_items
\* is FALSE when the answer has no "items" key or a null one, items is a list
\* of [title, link]
google_search(c) ==
    IF c.raises THEN <<>>
    ELSE IF ~c.has_items THEN <<>>
    ELSE c.items

\* ---------------------------------------------------------- responses
NoResponse == [status |-> 0, error |-> "", items |-> <<>>]
ConfigurationError ==
    [status |-> 500, error |-> "One or more API keys are missing. Check your .env.",
     items |-> <<>>]
InvalidInput ==
    [status |-> 400, error |-> "Search query cannot be empty.", items |-> <<>>]
AllSourcesUnsummarizable ==
    [status |-> 500, error |-> "Found sources, but none could be summarized. Likely paywalls, video links, or blocked scrapers.",
     items |-> <<>>]
\* jsonify(summaries)
Jsonify(list) == [status |-> 200, error |-> "", items |-> list]
\* what Flask answers when get_json cannot parse the body
BadRequest == [status |-> 400, error |-> "Bad Request", items |-> <<>>]
\* what Flask answers when an exception leaves the view function
InternalServerError ==
    [status |-> 500, error |-> "Internal Server Error", items |-> <<>>]

\* -------------------------------------------------------------- state
VARIABLES
    GOOGLE_API_KEY, GOOGLE_CSE_ID, GEMINI_API_KEY,  \* module-level config
    request,      \* the POST body: [json, has_query, query]
    cse,          \* what the search provider does for this request
    web,          \* per URL: what the page and the model do, [page, llm]
    pc,           \* position of the request in search() / extract_text()
    query,        \* search(): query
    results,      \* search(): results
    summaries,    \* search(): summaries
    idx,          \* search(): position of the for loop in results
    loc,          \* extract_text(): its locals title, text, publish_date
    title, text, publish_date,  \* search(): the triple extract_text returned
    md,           \* search(): md
    prompt,       \* summarize_with_gemini(): what the last prompt was built from
    response,     \* the HTTP response, NoResponse until one is sent
    log           \* calls made so far: [op, item, info]

vars == <<GOOGLE_API_KEY, GOOGLE_CSE_ID, GEMINI_API_KEY, request, cse, web, pc,
          query, results, summaries, idx, loc, title, text, publish_date, md,
          prompt, response, log>>

config == <<GOOGLE_API_KEY, GOOGLE_CSE_ID, GEMINI_API_KEY, request, cse, web>>
triple == <<title, text, publish_date>>

Event(op, item, info) == [op |-> op, item |-> item, info |-> info]

\* ------------------------------------------------------------- inputs
\* Sequences over S of length at most n
SeqUpTo(S, n) == UNION {[1..k -> S] : k \in 0..n}

KeyValues == {None, EmptyStr, <<"k">>}

QueryChars == Whitespace \cup {"q"}
Queries == SeqUpTo(QueryChars, MaxQueryLen)
Requests ==
    {[json |-> j, has_query |-> FALSE, query |-> EmptyStr] :
        j \in {"malformed", "falsy", "nondict", "dict"}}
    \cup {[json |-> "dict", has_query |-> TRUE, query |-> q] :
            q \in Queries \cup {None}}
GoodRequest == [json |-> "dict", has_query |-> TRUE, query |-> <<"q">>]

\* titles: newspaper3k's, readability's, the <title> element, the provider's
TitleN == <<"N">>
TitleR == <<"R">>
TitleB == <<" ", "B", " ">>
TitleG == <<"G">>
Markdown == <<"-", " ", "a">>
SomeDate == <<2024, 5, 17>>

Lens == {0, MinBodyLen - 1, MinBodyLen}

OkResp == [raises |-> FALSE, status_code |-> 200, text |-> <<"<">>]
BadResps ==
    {[raises |-> TRUE, status_code |-> 0, text |-> EmptyStr],
     [raises |-> FALSE, status_code |-> 404, text |-> <<"<">>],
     [raises |-> FALSE, status_code |-> 200, text |-> EmptyStr]}

NewspaperRaises ==
    [raises |-> TRUE, title |-> EmptyStr, text |-> NoText, publish_date |-> NoDate]
NewspaperOutcomes ==
    {NewspaperRaises}
    \cup {[raises |-> FALSE, title |-> t, text |-> Str("newspaper3k", n),
           publish_date |-> d] :
            t \in {EmptyStr, TitleN}, n \in Lens, d \in {NoDate, SomeDate}}

TrafilaturaDown == [raises |-> FALSE, downloaded |-> FALSE, extracted |-> NoText]
TrafilaturaOutcomes ==
    {[raises |-> TRUE, downloaded |-> FALSE, extracted |-> NoText], TrafilaturaDown}
    \cup {[raises |-> FALSE, downloaded |-> TRUE, extracted |-> x] :
            x \in {NoText} \cup {Str("trafilatura", n) : n \in Lens}}

ReadabilityOutcomes ==
    {[resp |-> r, raises |-> "no", short_title |-> EmptyStr,
      text |-> Str("readability", 0)] : r \in BadResps}
    \cup {[resp |-> OkResp, raises |-> e, short_title |-> EmptyStr,
           text |-> Str("readability", 0)] : e \in {"Document", "short_title"}}
    \cup {[resp |-> OkResp, raises |-> "summary", short_title |-> t,
           text |-> Str("readability", 0)] : t \in {EmptyStr, TitleR}}
    \cup {[resp |-> OkResp, raises |-> "no", short_title |-> t,
           text |-> Str("readability", n)] : t \in {EmptyStr, TitleR}, n \in Lens}

Bs4Outcomes ==
    {[resp |-> r, raises |-> FALSE, title_string |-> None,
      text |-> Str("bs4", 0)] : r \in BadResps}
    \cup {[resp |-> OkResp, raises |-> TRUE, title_string |-> None,
           text |-> Str("bs4", 0)]}
    \cup {[resp |-> OkResp, raises |-> FALSE, title_string |-> t,
           text |-> Str("bs4", n)] : t \in {None, <<" ">>, TitleB}, n \in Lens}

AllPages ==
    {[newspaper |-> a, trafilatura |-> b, readability |-> c, bs4 |-> d] :
        a \in NewspaperOutcomes, b \in TrafilaturaOutcomes,
        c \in ReadabilityOutcomes, d \in Bs4Outcomes}

LlmOk == [raises |-> FALSE, has_text |-> TRUE, text |-> Markdown]
LlmRaises == [raises |-> TRUE, has_text |-> FALSE, text |-> EmptyStr]
LlmNoText == [raises |-> FALSE, has_text |-> FALSE, text |-> EmptyStr]
LlmEmpty == [raises |-> FALSE, has_text |-> TRUE, text |-> EmptyStr]

NoHtml == CHOOSE r \in ReadabilityOutcomes : r.resp.raises
NoHtmlBs == CHOOSE r \in Bs4Outcomes : r.resp.raises
\* newspaper3k recovers a long article with a title and a date
GoodPage ==
    [newspaper |-> [raises |-> FALSE, title |-> TitleN,
                    text |-> Str("newspaper3k", PromptChars + 1000),
                    publish_date |-> SomeDate],
     trafilatura |-> TrafilaturaDown, readability |-> NoHtml, bs4 |-> NoHtmlBs]
\* a paywalled page: a title, a date and a stub of text, nothing more anywhere
DeadPage ==
    [newspaper |-> [raises |-> FALSE, title |-> TitleN,
                    text |-> Str("newspaper3k", MinBodyLen - 1),
                    publish_date |-> SomeDate],
     trafilatura |-> TrafilaturaDown, readability |-> NoHtml,
     bs4 |-> [resp |-> OkResp, raises |-> FALSE, title_string |-> TitleB,
              text |-> Str("bs4", MinBodyLen - 1)]]
\* only trafilatura recovers the article: a body without a title
UntitledPage ==
    [newspaper |-> NewspaperRaises,
     trafilatura |-> [raises |-> FALSE, downloaded |-> TRUE,
                      extracted |-> Str("trafilatura", MinBodyLen)],
     readability |-> NoHtml, bs4 |-> NoHtmlBs]
\* only the markup-stripping fallback works, and <title> is blank
BlankTitlePage ==
    [newspaper |-> NewspaperRaises, trafilatura |-> TrafilaturaDown,
     readability |-> NoHtml,
     bs4 |-> [resp |-> OkResp, raises |-> FALSE, title_string |-> <<" ">>,
              text |-> Str("bs4", MinBodyLen)]]

\* a candidate together with what the world does for its URL
Kind(t, l, p, m) == [title |-> t, haslink |-> l, page |-> p, llm |-> m]
KindOK == Kind(TitleG, TRUE, GoodPage, LlmOk)
KindXF == Kind(TitleG, TRUE, DeadPage, LlmOk)
KindSF == Kind(TitleG, TRUE, GoodPage, LlmRaises)
CoreKinds == {KindOK, KindXF, KindSF}
WideKinds ==
    {Kind(TitleG, FALSE, GoodPage, LlmOk),
     Kind(None, TRUE, UntitledPage, LlmOk),
     Kind(EmptyStr, TRUE, UntitledPage, LlmOk),
     Kind(TitleG, TRUE, UntitledPage, LlmOk),
     Kind(TitleG, TRUE, BlankTitlePage, LlmOk),
     Kind(None, TRUE, GoodPage, LlmOk),
     Kind(TitleG, TRUE, GoodPage, LlmNoText),
     Kind(TitleG, TRUE, GoodPage, LlmEmpty),
     Kind(TitleG, TRUE, GoodPage, LlmRaises),
     Kind(TitleG, TRUE, DeadPage, LlmOk)}

Count(ks, k) == Cardinality({i \in DOMAIN ks : ks[i] = k})
\* the provider's full page of results: ten candidates of which three fail
\* extraction, one fails summarization and six succeed; or ten that succeed
FullPages ==
    {ks \in [1..NumResults -> CoreKinds] :
        \/ Count(ks, KindXF) = 3 /\ Count(ks, KindSF) = 1
        \/ Count(ks, KindOK) = NumResults}

CandidateLists ==
    SeqUpTo(CoreKinds, MaxCandidates)
    \cup SeqUpTo(WideKinds, MaxWide)
    \cup {<<Kind(TitleG, TRUE, p, LlmOk)>> : p \in AllPages}
    \cup FullPages

Items(ks) ==
    [i \in DOMAIN ks |->
        [title |-> ks[i].title, link |-> IF ks[i].haslink THEN i ELSE NoUrl]]
Web(ks) == [i \in DOMAIN ks |-> [page |-> ks[i].page, llm |-> ks[i].llm]]

GoodKeys == <<"k">>
Input(k1, k2, k3, req, c, w) ==
    [k1 |-> k1, k2 |-> k2, k3 |-> k3, request |-> req, cse |-> c, web |-> w]
Inputs ==
    \* every combination of credentials and request body, one good candidate
    {Input(k1, k2, k3, req, [raises |-> FALSE, has_items |-> TRUE, items |-> Items(<<KindOK>>)],
           Web(<<KindOK>>)) :
        k1 \in KeyValues, k2 \in KeyValues, k3 \in KeyValues, req \in Requests}
    \* the provider raises, or answers without items
    \cup {Input(GoodKeys, GoodKeys, GoodKeys, GoodRequest, c, <<>>) :
            c \in {[raises |-> TRUE, has_items |-> FALSE, items |-> <<>>],
                   [raises |-> FALSE, has_items |-> FALSE, items |-> <<>>]}}
    \* the provider answers with a list
    \cup {Input(GoodKeys, GoodKeys, GoodKeys, GoodRequest,
                [raises |-> FALSE, has_items |-> TRUE, items |-> Items(ks)], Web(ks)) :
            ks \in CandidateLists}

Init ==
    \E inp \in Inputs :
        /\ GOOGLE_API_KEY = inp.k1
        /\ GOOGLE_CSE_ID = inp.k2
        /\ GEMINI_API_KEY = inp.k3
        /\ request = inp.request
        /\ cse = inp.cse
        /\ web = inp.web
        /\ pc = "search"
        /\ query = None
        /\ results = <<>>
        /\ summaries = <<>>
        /\ idx = 0
        /\ loc = NoneTriple
        /\ title = None
        /\ text = NoText
        /\ publish_date = NoDate
        /\ md = None
        /\ prompt = NoPrompt
        /\ response = NoResponse
        /\ log = <<>>

\* ------------------------------------------------------------ search()
\* if not all([GOOGLE_API_KEY, GOOGLE_CSE_ID, GEMINI_API_KEY])
CheckKeys ==
    /\ pc = "search"
    /\ IF Truthy(GOOGLE_API_KEY) /\ Truthy(GOOGLE_CSE_ID) /\ Truthy(GEMINI_API_KEY)
       THEN pc' = "get_json" /\ UNCHANGED response
       ELSE pc' = "done" /\ response' = ConfigurationError
    /\ UNCHANGED <<config, query, results, summaries, idx, loc, triple, md,
                   prompt, log>>

\* data = request.get_json(force=True) or {}; query = data.get("query", "").strip()
\* [raised, status, query]: an exception carries the response Flask makes of it
GetQuery(req) ==
    IF req.json = "malformed" THEN [raised |-> TRUE, answer |-> BadRequest, query |-> None]
    ELSE IF req.json = "falsy" THEN [raised |-> FALSE, answer |-> NoResponse, query |-> strip(EmptyStr)]
    ELSE IF req.json = "nondict"
         THEN [raised |-> TRUE, answer |-> InternalServerError, query |-> None]
    ELSE IF ~req.has_query
         THEN [raised |-> FALSE, answer |-> NoResponse, query |-> strip(EmptyStr)]
    ELSE IF req.query = None
         THEN [raised |-> TRUE, answer |-> InternalServerError, query |-> None]
    ELSE [raised |-> FALSE, answer |-> NoResponse, query |-> strip(req.query)]

ParseQuery ==
    /\ pc = "get_json"
    /\ LET g == GetQuery(request) IN
       IF g.raised THEN pc' = "done" /\ response' = g.answer /\ UNCHANGED query
       ELSE IF ~Truthy(g.query)
            THEN pc' = "done" /\ response' = InvalidInput /\ query' = g.query
       ELSE pc' = "google_search" /\ query' = g.query /\ UNCHANGED response
    /\ UNCHANGED <<config, results, summaries, idx, loc, triple, md, prompt, log>>

\* results = google_search(query, ..., num=10); summaries = []
GoogleSearch ==
    /\ pc = "google_search"
    /\ results' = google_search(cse)
    /\ summaries' = <<>>
    /\ idx' = 0
    /\ log' = Append(log, Event("google_search", 0, ""))
    /\ pc' = "for"
    /\ UNCHANGED <<config, query, loc, triple, md, prompt, response>>

\* for item in results: url = item.get("link"); if not url: continue;
\* ... = extract_text(url)
ForItem ==
    /\ pc = "for"
    /\ IF idx >= Len(results)
       THEN pc' = "respond" /\ UNCHANGED <<idx, loc, log>>
       ELSE /\ idx' = idx + 1
            /\ IF results[idx + 1].link = NoUrl
               THEN pc' = "for" /\ UNCHANGED <<loc, log>>
               ELSE /\ pc' = "newspaper3k"
                    /\ loc' = NoneTriple
                    /\ log' = Append(log, Event("extract_text", idx + 1, ""))
    /\ UNCHANGED <<config, query, results, summaries, triple, md, prompt, response>>

\* ------------------------------------------------- extract_text(url)
\* the URL of the candidate the loop is at, and its page
Url == results[idx].link
Page == web[Url].page

\* One try block of extract_text. r is the strategy's Step; a strategy that
\* neither returns nor lets an exception out hands over to `next`, and after
\* the last one the function returns ExtractFail.
Strategy(here, next, r) ==
    /\ pc = here
    /\ log' = Append(log, Event(here, idx, IF r.returned THEN "returned" ELSE "next"))
    /\ IF r.escaped
       THEN /\ pc' = "done"
            /\ response' = InternalServerError
            /\ UNCHANGED <<loc, triple>>
       ELSE /\ loc' = r.loc
            /\ UNCHANGED response
            /\ IF r.returned
               THEN /\ pc' = "extracted"
                    /\ title' = r.value.title
                    /\ text' = r.value.text
                    /\ publish_date' = r.value.publish_date
               ELSE IF next = "return"
               THEN /\ pc' = "extracted"
                    /\ title' = ExtractFail(r.loc).title
                    /\ text' = ExtractFail(r.loc).text
                    /\ publish_date' = ExtractFail(r.loc).publish_date
               ELSE pc' = next /\ UNCHANGED triple
    /\ UNCHANGED <<config, query, results, summaries, idx, md, prompt>>

\* variant: the chain goes from newspaper3k straight to readability
TryNewspaper3k_skip == Strategy("newspaper3k", "readability", Newspaper3k(Page.newspaper, loc))
TryNewspaper3k == Strategy("newspaper3k", "trafilatura", Newspaper3k(Page.newspaper, loc))
TryTrafilatura == Strategy("trafilatura", "readability", Trafilatura(Page.trafilatura, loc))
TryReadability == Strategy("readability", "bs4", Readability(Page.readability, loc))
TryBs4 == Strategy("bs4", "return", Bs4Fallback(Page.bs4, loc))

\* ------------------------------------------------- search(), continued
\* if not text: continue; try: md = summarize_with_gemini(...) except: continue
Summarize ==
    /\ pc = "extracted"
    /\ IF ~TruthyText(text)
       THEN pc' = "for" /\ UNCHANGED <<md, prompt, log>>
       ELSE LET context == [title |-> title, url |-> Url,
                            date_iso |-> IF publish_date # NoDate
                                         THEN isoformat(publish_date) ELSE None]
                r == summarize_with_gemini(GEMINI_API_KEY, web[Url].llm, text, context)
            IN /\ log' = Append(log, Event("summarize_with_gemini", idx, ""))
               /\ prompt' = r.prompt
               /\ IF r.raised
                  THEN pc' = "for" /\ UNCHANGED md
                  ELSE pc' = "append" /\ md' = r.md
    /\ UNCHANGED <<config, query, results, summaries, idx, loc, triple, response>>

\* variant: no "Untitled" fallback
SummaryItem_nofallback(t, item, url, m) ==
    [title |-> PyOr(t, item.title), url |-> url, summary |-> m]

\* the item appended for a candidate
SummaryItem(t, item, url, m) ==
    [title |-> PyOr(t, PyOr(item.title, <<"U", "n", "t", "i", "t", "l", "e", "d">>)),
     url |-> url, summary |-> m]

\* variant: `if len(summaries) > 6: break`
QuotaReached_late(list) == Len(list) > Quota
\* variant: the loop has no break
QuotaReached_never(list) == FALSE

\* `if len(summaries) >= 6: break`
QuotaReached(list) == Len(list) >= Quota

\* if not md: continue; summaries.append({...}); if len(summaries) >= 6: break
AppendSummary ==
    /\ pc = "append"
    /\ IF ~Truthy(md)
       THEN pc' = "for" /\ UNCHANGED <<summaries, log>>
       ELSE /\ summaries' = Append(summaries, SummaryItem(title, results[idx], Url, md))
            /\ log' = Append(log, Event("append", idx, ""))
            /\ pc' = IF QuotaReached(summaries') THEN "respond" ELSE "for"
    /\ UNCHANGED <<config, query, results, idx, loc, triple, md, prompt, response>>

\* variant: the list is returned without the post-condition check
Answer_unchecked(res, sums) == Jsonify(sums)

\* if results and not summaries: return error, 500; return jsonify(summaries)
Answer(res, sums) ==
    IF res # <<>> /\ sums = <<>> THEN AllSourcesUnsummarizable ELSE Jsonify(sums)

Respond ==
    /\ pc = "respond"
    /\ response' = Answer(results, summaries)
    /\ pc' = "done"
    /\ UNCHANGED <<config, query, results, summaries, idx, loc, triple, md,
                   prompt, log>>

Next ==
    \/ CheckKeys
    \/ ParseQuery
    \/ GoogleSearch
    \/ ForItem
    \/ TryNewspaper3k
    \/ TryTrafilatura
    \/ TryReadability
    \/ TryBs4
    \/ Summarize
    \/ AppendSummary
    \/ Respond

Spec == Init /\ [][Next]_vars

\* ====================================================== properties
\* Vocabulary shared by the properties below. It speaks of the inputs (what
\* the provider, the pages and the model do) and of the log of calls.

Done == pc = "done"
\* the request passed both precondition checks and reached the provider
Entered == log # <<>>
AllKeys == Truthy(GOOGLE_API_KEY) /\ Truthy(GOOGLE_CSE_ID) /\ Truthy(GEMINI_API_KEY)

Order == <<"newspaper3k", "trafilatura", "readability", "bs4">>
StrategyNames == {Order[k] : k \in DOMAIN Order}
Pos(op) == CHOOSE k \in DOMAIN Order : Order[k] = op

PageOf(i) == web[results[i].link].page
LlmOf(i) == web[results[i].link].llm

\* the text a strategy recovers from a page on its own (NoText if it raises
\* or cannot fetch the page)
RecoveredText(op, page) ==
    CASE op = "newspaper3k" ->
            IF page.newspaper.raises THEN NoText ELSE page.newspaper.text
      [] op = "trafilatura" ->
            IF page.trafilatura.raises \/ ~page.trafilatura.downloaded
            THEN NoText ELSE page.trafilatura.extracted
      [] op = "readability" ->
            IF \/ page.readability.resp.raises
               \/ page.readability.resp.status_code # 200
               \/ page.readability.resp.text = EmptyStr
               \/ page.readability.raises \in {"Document", "summary"}
            THEN NoText ELSE page.readability.text
      [] op = "bs4" ->
            IF \/ page.bs4.resp.raises
               \/ page.bs4.resp.status_code # 200
               \/ page.bs4.resp.text = EmptyStr
               \/ page.bs4.raises
            THEN NoText ELSE page.bs4.text

\* the strategy raises on the page
Raises(op, page) ==
    CASE op = "newspaper3k" -> page.newspaper.raises
      [] op = "trafilatura" -> page.trafilatura.raises
      [] op = "readability" ->
            /\ ~page.readability.resp.raises
            /\ page.readability.resp.status_code = 200
            /\ page.readability.resp.text # EmptyStr
            /\ page.readability.raises \in {"Document", "summary"}
      [] op = "bs4" ->
            /\ ~page.bs4.resp.raises
            /\ page.bs4.resp.status_code = 200
            /\ page.bs4.resp.text # EmptyStr
            /\ page.bs4.raises

\* the strategy raises or fails the quality gate
Rejected(op, page) == PyLen(RecoveredText(op, page)) < MinBodyLen
AllRejected(page) == \A op \in StrategyNames : Rejected(op, page)

\* the title a strategy supplies on its own (None if it supplies none)
OwnTitle(op, page) ==
    CASE op = "newspaper3k" ->
            IF page.newspaper.raises THEN None ELSE page.newspaper.title
      [] op = "trafilatura" -> None
      [] op = "readability" ->
            IF \/ page.readability.resp.raises
               \/ page.readability.resp.status_code # 200
               \/ page.readability.resp.text = EmptyStr
               \/ page.readability.raises \in {"Document", "short_title"}
            THEN None ELSE page.readability.short_title
      [] op = "bs4" -> None

\* a candidate is successful: it has a URL, extraction returns a body and the
\* summarizer returns a non-empty summary without raising
Successful(i) ==
    /\ results[i].link # NoUrl
    /\ TruthyText(extract_text(PageOf(i)).text)
    /\ ~LlmOf(i).raises /\ LlmOf(i).has_text /\ LlmOf(i).text # EmptyStr

RECURSIVE SuccessesFrom(_)
SuccessesFrom(i) ==
    IF i > Len(results) THEN <<>>
    ELSE (IF Successful(i) THEN <<i>> ELSE <<>>) \o SuccessesFrom(i + 1)
\* the successful candidates, in provider order
Successes == SuccessesFrom(1)
Take(s, n) == SubSeq(s, 1, Min(n, Len(s)))

\* the candidates the items of a list were derived from: the URLs identify them
UrlsOf(list) == [j \in DOMAIN list |-> list[j].url]
LinksOf(is) == [j \in DOMAIN is |-> results[is[j]].link]

\* the log positions of one kind of call
Calls(op) == {p \in DOMAIN log : log[p].op = op}
AppendsUpTo(p) == Cardinality({q \in Calls("append") : q <= p})

\* the strategy calls of the extract_text call in progress (or just returned)
InExtract == pc \in StrategyNames \cup {"extracted"}
LastCall == CHOOSE p \in Calls("extract_text") : \A q \in Calls("extract_text") : q <= p
Tried == SubSeq(log, LastCall + 1, Len(log))
Accepted == Tried # <<>> /\ Tried[Len(Tried)].info = "returned"

\* ---------------------------------------------------------------- C1
\* C1 as stated: once the provider has been queried, the response is the
\* non-error list of the first min(6, k) successful candidates, in provider
\* order, for every candidate list (k the number of successful candidates).
C1_QuotaLawAsStated ==
    Done /\ Entered =>
        /\ response.status = 200
        /\ UrlsOf(response.items) = LinksOf(Take(Successes, Quota))

\* C1 (amended): the response is the non-error list of the first min(6, k)
\* successful candidates, in provider order, whenever the candidate list is
\* empty or k >= 1; a non-empty list with k = 0 is answered with the
\* AllSourcesUnsummarizable error instead of an empty list.
C1_QuotaLaw ==
    Done /\ Entered =>
        IF results = <<>> \/ Successes # <<>>
        THEN /\ response.status = 200
             /\ UrlsOf(response.items) = LinksOf(Take(Successes, Quota))
        ELSE response = AllSourcesUnsummarizable

\* ten candidates, three fail extraction, one fails summarization, six succeed
C1_Witness ==
    /\ Done
    /\ Len(results) = NumResults
    /\ Cardinality({i \in DOMAIN results : ~TruthyText(extract_text(PageOf(i)).text)}) = 3
    /\ Cardinality({i \in DOMAIN results : LlmOf(i).raises}) = 1
    /\ Len(Successes) = Quota
    /\ ~Successful(1)
    /\ Len(response.items) = Quota

\* ---------------------------------------------------------------- C2
\* C2: zero candidates (the provider raised, or returned none) are answered
\* with an empty non-error list; at least one candidate of which none is
\* successful is answered with the AllSourcesUnsummarizable error; an empty
\* non-error list is answered only in the zero-candidate case.
C2_TwoTierFailure ==
    Done /\ Entered =>
        /\ (cse.raises \/ ~cse.has_items \/ cse.items = <<>>) =>
                results = <<>> /\ response = Jsonify(<<>>)
        /\ (~cse.raises /\ cse.has_items /\ cse.items # <<>>
                /\ \A i \in DOMAIN cse.items : ~Successful(i)) =>
                response = AllSourcesUnsummarizable
        /\ (response.status = 200 /\ response.items = <<>>) =>
                (cse.raises \/ ~cse.has_items \/ cse.items = <<>>)

\* several candidates, each skipped for another reason
C2_Witness ==
    /\ Done
    /\ response = AllSourcesUnsummarizable
    /\ Len(results) >= 2
    /\ results[1].link = NoUrl
    /\ results[2].link # NoUrl /\ ~LlmOf(2).raises /\ LlmOf(2).text = EmptyStr

\* ---------------------------------------------------------------- C3
\* the query the request carries, "" when it carries none
RequestQuery ==
    IF request.json = "dict" /\ request.has_query THEN request.query ELSE EmptyStr
\* the request is well formed and its query is a string of whitespace only
QueryBlank ==
    /\ request.json \in {"dict", "falsy"}
    /\ RequestQuery # None
    /\ \A i \in DOMAIN RequestQuery : RequestQuery[i] \in Whitespace

\* C3: with a credential absent the request fails with ConfigurationError
\* whatever the query; with all three present and a query that is empty after
\* trimming it fails with InvalidInput; in both cases no call to the provider,
\* to an extraction strategy or to the summarizer is ever made.
C3_Preconditions ==
    /\ ~AllKeys => log = <<>> /\ (Done => response = ConfigurationError)
    /\ (AllKeys /\ QueryBlank) => log = <<>> /\ (Done => response = InvalidInput)

\* all credentials present, a query of blanks and tabs only
C3_Witness ==
    /\ Done
    /\ AllKeys
    /\ request.query = <<" ", "\t">>
    /\ response = InvalidInput

\* ---------------------------------------------------------------- C4
\* C4: a body returned by extract_text is the text recovered by the strategy
\* that ran last, and has at least 300 characters; a strategy whose recovered
\* text is shorter (or empty) does not return, and the next strategy of the
\* chain runs after it.
C4_QualityGate ==
    InExtract =>
        /\ (pc = "extracted" /\ text # NoText) =>
                /\ Accepted
                /\ text = RecoveredText(Tried[Len(Tried)].op, Page)
                /\ PyLen(text) >= MinBodyLen
        /\ \A j \in DOMAIN Tried :
                Rejected(Tried[j].op, Page) =>
                    /\ Tried[j].info = "next"
                    /\ text # RecoveredText(Tried[j].op, Page) \/ text = NoText
                    /\ IF j < Len(Tried) THEN Tried[j + 1].op = Order[Pos(Tried[j].op) + 1]
                       ELSE IF Tried[j].op = "bs4" THEN pc = "extracted" /\ text = NoText
                       ELSE pc = Order[Pos(Tried[j].op) + 1]

\* two strategies recovered 299 characters, the third is accepted
C4_Witness ==
    /\ pc = "extracted"
    /\ PyLen(RecoveredText("newspaper3k", Page)) = MinBodyLen - 1
    /\ PyLen(RecoveredText("trafilatura", Page)) = MinBodyLen - 1
    /\ text = Str("readability", MinBodyLen)

\* ---------------------------------------------------------------- C5
\* C5: when extract_text returns a body, and a strategy that ran before the
\* accepted one supplied a non-empty title, the returned title is the first
\* such title.
C5_TitleMerge ==
    (pc = "extracted" /\ text # NoText) =>
        \A j \in 1..(Len(Tried) - 1) :
            (/\ Truthy(OwnTitle(Tried[j].op, Page))
             /\ \A i \in 1..(j - 1) : ~Truthy(OwnTitle(Tried[i].op, Page)))
                => title = OwnTitle(Tried[j].op, Page)

\* strategy 1 supplies a title with a short body, strategy 3 is accepted with
\* an empty title of its own
C5_Witness ==
    /\ pc = "extracted"
    /\ ~Page.newspaper.raises
    /\ Page.newspaper.title = TitleN
    /\ PyLen(Page.newspaper.text) = MinBodyLen - 1
    /\ text = Str("readability", MinBodyLen)
    /\ Page.readability.short_title = EmptyStr
    /\ title = TitleN

\* ---------------------------------------------------------------- C6
\* the candidate the j-th item was derived from: that of the j-th append
Source(j) == log[CHOOSE p \in Calls("append") : AppendsUpTo(p) = j].item
Untitled == <<"U", "n", "t", "i", "t", "l", "e", "d">>
\* extracted title, else candidate title, else "Untitled"
ExpectedTitle(i) ==
    IF Truthy(extract_text(PageOf(i)).title) THEN extract_text(PageOf(i)).title
    ELSE IF Truthy(results[i].title) THEN results[i].title
    ELSE Untitled

C6_Items ==
    /\ Len(summaries) <= Quota
    /\ Cardinality(Calls("append")) = Len(summaries)
    /\ \A j \in DOMAIN summaries :
        /\ summaries[j].url = results[Source(j)].link
        /\ summaries[j].url # NoUrl
        /\ Truthy(summaries[j].summary)
        /\ Truthy(summaries[j].title)
        /\ summaries[j].title = ExpectedTitle(Source(j))
    /\ (Done /\ response.status = 200) => response.items = summaries
C6_AppendOnly ==
    /\ Len(summaries') >= Len(summaries)
    /\ SubSeq(summaries', 1, Len(summaries)) = summaries

\* C6: in every state of the loop and in the returned list, the list has at
\* most 6 items, every item carries the URL of the candidate it was derived
\* from, a non-empty summary and a non-empty title (extracted title, else
\* candidate title, else "Untitled"); and the list only grows at its end.
C6_ResultSet == [](C6_Items) /\ [][C6_AppendOnly]_vars

\* an item that fell back to "Untitled" is followed by a second item
C6_Witness ==
    /\ Done
    /\ Len(response.items) = 2
    /\ response.items[1].title = Untitled
    /\ response.items[2].title = TitleG

\* ---------------------------------------------------------------- C7
\* C7: when every strategy raised or failed the quality gate, extract_text
\* returns title, body and publish date all absent, whatever the strategies
\* had recovered; and the summarizer is never called for such a candidate.
C7_TotalFailure ==
    /\ (pc = "extracted" /\ AllRejected(Page)) =>
            title = None /\ text = NoText /\ publish_date = NoDate
    /\ \A p \in Calls("summarize_with_gemini") : ~AllRejected(PageOf(log[p].item))
    /\ (pc = "append" => ~AllRejected(Page))

\* a title, a date and a short body had been recovered, none is returned and
\* the loop has moved on without a summarizer call
C7_Witness ==
    /\ pc = "for"
    /\ idx >= 1
    /\ results[idx].link # NoUrl
    /\ AllRejected(Page)
    /\ loc.title = TitleN /\ loc.publish_date = SomeDate /\ TruthyText(loc.text)
    /\ title = None /\ text = NoText /\ publish_date = NoDate
    /\ log[Len(log)].op = "bs4"

\* ---------------------------------------------------------------- C8
\* C8: the log of every extract_text call is a prefix of newspaper3k,
\* trafilatura, readability, bs4: the first strategy follows the call, a later
\* strategy follows the strategy before it, for the same candidate, only when
\* that one raised or was rejected; and nothing of the chain follows a
\* strategy that was accepted.
C8_OrderedFallback ==
    /\ \A p \in DOMAIN log :
        /\ log[p].op = "extract_text" =>
                IF p < Len(log) THEN log[p + 1].op = Order[1] ELSE pc = Order[1]
        /\ log[p].op \in StrategyNames =>
            LET k == Pos(log[p].op) IN
            /\ p > 1
            /\ log[p - 1].item = log[p].item
            /\ IF k = 1 THEN log[p - 1].op = "extract_text"
               ELSE /\ log[p - 1].op = Order[k - 1]
                    /\ log[p - 1].info = "next"
                    /\ Rejected(Order[k - 1], PageOf(log[p].item))
            /\ log[p].info = "returned" =>
                /\ ~Rejected(log[p].op, PageOf(log[p].item))
                /\ IF p < Len(log) THEN log[p + 1].op \notin StrategyNames
                   ELSE pc = "extracted"
            /\ (log[p].info = "next" /\ p = Len(log)) =>
                IF k < Len(Order) THEN pc = Order[k + 1] ELSE pc \notin StrategyNames
    /\ pc \in StrategyNames => log # <<>> /\ log[Len(log)].item = idx

\* the third strategy is accepted after two rejections; the fourth never runs
C8_Witness ==
    /\ pc = "append"
    /\ Len(log) >= 5
    /\ log[Len(log)].op = "summarize_with_gemini"
    /\ log[Len(log) - 1] = Event("readability", idx, "returned")
    /\ log[Len(log) - 2] = Event("trafilatura", idx, "next")
    /\ ~Rejected("bs4", Page)

\* ---------------------------------------------------------------- C9
\* C9: candidates are taken one at a time in provider order; no extraction
\* and no summarization call is logged after the append that brought the list
\* to 6 items; and while the list is short of 6 items every candidate with a
\* URL that the loop has passed was given to extract_text.
C9_EarlyTermination ==
    /\ \A p \in DOMAIN log, q \in DOMAIN log : p < q => log[p].item <= log[q].item
    /\ \A p \in Calls("extract_text"), q \in Calls("extract_text") :
            p < q => log[p].item < log[q].item
    /\ \A p \in Calls("append") : AppendsUpTo(p) >= Quota => p = Len(log)
    /\ Len(summaries) >= Quota => pc \in {"respond", "done"}
    /\ \A i \in 1..idx :
            results[i].link # NoUrl =>
                \E p \in Calls("extract_text") : log[p].item = i
    /\ (pc \in {"respond", "done"} /\ Entered /\ Len(summaries) < Quota) =>
            /\ idx = Len(results)
            /\ \A i \in DOMAIN results :
                    results[i].link # NoUrl =>
                        \E p \in Calls("extract_text") : log[p].item = i

\* six items after seven candidates, and three candidates never touched
C9_Witness ==
    /\ Done
    /\ Len(results) = NumResults
    /\ Len(summaries) = Quota
    /\ idx = 7
    /\ \A p \in DOMAIN log : log[p].item <= 7

\* --------------------------------------------------------------- C10
\* the candidates that come before the quota is reached
BeforeQuota(i) ==
    Cardinality({j \in 1..(i - 1) : Successful(j)}) < Quota

\* C10: once the provider has been queried no exception reaches the caller;
\* a strategy that raises is followed by the next strategy of the chain; and
\* every candidate that comes before the quota is reached ends up in the list
\* exactly when it is successful itself, whatever happened to the candidates
\* before it.
C10_FailureIsolation ==
    /\ Entered => response # InternalServerError
    /\ (Done /\ Entered) => response \in {AllSourcesUnsummarizable, Jsonify(summaries)}
    /\ \A p \in DOMAIN log :
            (log[p].op \in StrategyNames /\ Raises(log[p].op, PageOf(log[p].item))) =>
                LET k == Pos(log[p].op) IN
                IF k = Len(Order) THEN pc # "bs4"
                ELSE IF p < Len(log) THEN log[p + 1].op = Order[k + 1]
                ELSE pc = Order[k + 1]
    /\ (Done /\ Entered) =>
            \A i \in DOMAIN results :
                BeforeQuota(i) =>
                    /\ results[i].link # NoUrl =>
                            \E p \in Calls("extract_text") : log[p].item = i
                    /\ Successful(i) <=> \E p \in Calls("append") : log[p].item = i

\* the first candidate's summarizer raises, the second candidate's first two
\* strategies raise or fail, and the second candidate is in the list
C10_Witness ==
    /\ Done
    /\ Len(results) = 2
    /\ results[1].link # NoUrl /\ LlmOf(1).raises
    /\ results[2].link # NoUrl /\ PageOf(2).newspaper.raises
    /\ UrlsOf(response.items) = <<results[2].link>>

====
